---- MODULE Spec2Model ----
(***************************************************************************)
(* NGKs ExecLedger Desktop: the project/path configuration store           *)
(* (desktop-companion/ui/config.py) and the gateway to the Node engine     *)
(* (desktop-companion/ui/engine_client.py).                                *)
(*                                                                         *)
(* A path is the sequence of its segments below the filesystem root, so    *)
(* "/a/execledger" is <<"a", "execledger">> and "/" is << >>.  A raw path  *)
(* may hold "." and ".." segments, which os.path.normpath removes.         *)
(***************************************************************************)
EXTENDS Integers, Sequences, FiniteSets, TLC

VARIABLES
    cfg,      \* Config._config: the in-memory configuration dictionary
    file,     \* ui_config.json: absent, unparsable, or a JSON object
    disk,     \* what a write of ui_config.json meets: "ok", "unwritable"
              \* (open raises) or "failing" (json.dump raises after open)
    op,       \* the last call on the store and what it returned
    scenario, \* progress of an upsert / set-active / reload sequence
    pfn,      \* the path function applied last ("none" before any call)
    parg,     \* its argument
    pres,     \* its result
    client,   \* the EngineClient: "none" before it is constructed, "ready"
    last_result, \* EngineClient.last_result
    child,    \* what the last child process of the gateway did
    returned  \* what the last call on the gateway gave its caller

vars == <<cfg, file, disk, op, scenario, pfn, parg, pres,
          client, last_result, child, returned>>

storeVars == <<cfg, file, disk, op, scenario>>

pathVars == <<pfn, parg, pres>>

engineVars == <<client, last_result, child, returned>>

(***************************************************************************)
(* Bounds                                                                  *)
(***************************************************************************)
\* longest raw path handed to the path functions
MaxDepth == 3

\* most reserved segments that end a project root handed to the store
MaxTail == 1

(***************************************************************************)
(* Strings                                                                 *)
(***************************************************************************)
Segments == {"a", "execledger", "_artifacts", "EXECLEDGER", "_Artifacts",
             "my_artifacts", ".", ".."}

\* str.lower() on the segments of the model
Lower(s) ==
    CASE s = "EXECLEDGER" -> "execledger"
      [] s = "_Artifacts" -> "_artifacts"
      [] OTHER -> s

Front(s) == SubSeq(s, 1, Len(s) - 1)

Last(s) == s[Len(s)]

(***************************************************************************)
(* Path functions                                                          *)
(***************************************************************************)
\* os.path.normpath on an absolute path: "." is dropped, ".." removes the
\* segment before it and is dropped at the root
RECURSIVE normpath(_)
normpath(path) ==
    IF path = << >> THEN << >>
    ELSE LET head == normpath(Front(path))
             seg == Last(path)
         IN  CASE seg = "." -> head
               [] seg = ".." -> IF head = << >> THEN << >> ELSE Front(head)
               [] OTHER -> Append(head, seg)

\* pathlib: Path(p).name, "" for the root
PathName(p) == IF p = << >> THEN "" ELSE Last(p)

\* pathlib: Path(p).parent, the root is its own parent
PathParent(p) == IF p = << >> THEN << >> ELSE Front(p)

\* a mutant of normalize_project_root: the comparison is case-sensitive
normalize_project_root_case(path) ==
    LET normalized_path == normpath(path)
        base_name == PathName(normalized_path)
    IN  IF base_name = "_artifacts" \/ base_name = "execledger"
        THEN PathParent(normalized_path)
        ELSE normalized_path

normalize_project_root(path) ==
    LET normalized_path == normpath(path)
        base_name == Lower(PathName(normalized_path))
    IN  IF base_name = "_artifacts" \/ base_name = "execledger"
        THEN PathParent(normalized_path)
        ELSE normalized_path

\* a mutant of derive_artifacts_root: the root is taken as it is given
derive_artifacts_root_raw(project_root) == Append(project_root, "execledger")

\* Config.derive_artifacts_root
derive_artifacts_root(project_root) ==
    Append(normalize_project_root(project_root), "execledger")

(***************************************************************************)
(* The configuration dictionary.  A JSON object is a record whose DOMAIN   *)
(* is the set of its keys, so a missing key is a missing field.            *)
(***************************************************************************)
\* Path(__file__).parent.parent.parent, the repository root
repo_root == <<"repo">>

ProjectEntry(name, project_root, artifacts_root) ==
    [name |-> name, project_root |-> project_root,
     artifacts_root |-> artifacts_root]

\* Config.__init__: self.defaults
defaults ==
    [artifacts_root |-> derive_artifacts_root(repo_root),
     dev_mode |-> 1,
     tier |-> "PREMIUM",
     projects |-> <<ProjectEntry("ExecLedger", repo_root,
                                 derive_artifacts_root(repo_root))>>,
     active_project |-> "ExecLedger"]

\* dict.get(key, default)
DictGet(d, key, default) == IF key \in DOMAIN d THEN d[key] ELSE default

\* d.update(e) on a copy of d
DictUpdate(d, e) ==
    [k \in DOMAIN d \cup DOMAIN e |-> IF k \in DOMAIN e THEN e[k] ELSE d[k]]

\* str.endswith("_artifacts") or str.endswith("execledger") on the path's
\* string, which ends with its last segment
EndsWithReserved(path) ==
    /\ path # << >>
    /\ Last(path) \in {"_artifacts", "my_artifacts", "execledger"}

\* pathlib.Path(p): "." segments are dropped, ".." segments are kept
PurePath(p) == SelectSeq(p, LAMBDA s : s # ".")

\* a mutant of normalize_project_entry: a legacy entry keeps the artifacts
\* root it came with
normalize_project_entry_keeps_legacy(entry) ==
    LET project_root ==
            IF "project_root" \in DOMAIN entry /\ "artifacts_root" \in DOMAIN entry
            THEN normalize_project_root(entry.project_root)
            ELSE IF "artifacts_root" \in DOMAIN entry
            THEN normalize_project_root(
                     IF EndsWithReserved(entry.artifacts_root)
                     THEN PathParent(PurePath(entry.artifacts_root))
                     ELSE entry.artifacts_root)
            ELSE normalize_project_root(repo_root)
    IN  ProjectEntry(DictGet(entry, "name", "ExecLedger"), project_root,
                     IF "project_root" \notin DOMAIN entry /\ "artifacts_root" \in DOMAIN entry
                     THEN entry.artifacts_root
                     ELSE derive_artifacts_root(project_root))

normalize_project_entry(entry) ==
    LET project_root ==
            IF "project_root" \in DOMAIN entry /\ "artifacts_root" \in DOMAIN entry
            THEN normalize_project_root(entry.project_root)
            ELSE IF "artifacts_root" \in DOMAIN entry
            THEN LET legacy_path == entry.artifacts_root
                 IN  normalize_project_root(
                         IF EndsWithReserved(legacy_path)
                         THEN PathParent(PurePath(legacy_path))
                         ELSE legacy_path)
            ELSE normalize_project_root(repo_root)
    IN  ProjectEntry(DictGet(entry, "name", "ExecLedger"), project_root,
                     derive_artifacts_root(project_root))

\* the file as the store finds it
NoFile == [state |-> "absent"]

CorruptFile == [state |-> "corrupt"]

JsonFile(data) == [state |-> "json", data |-> data]

\* a mutant of _load_config: the merge runs the wrong way, so the defaults
\* overwrite what the file holds
load_config_defaults_win(f) ==
    IF f.state # "json" THEN defaults ELSE DictUpdate(f.data, defaults)

\* Config._load_config
load_config(f) ==
    IF f.state = "absent" THEN defaults
    ELSE IF f.state = "corrupt" THEN defaults
    ELSE LET config == f.data
             migrated ==
                 IF "projects" \notin DOMAIN config /\ "artifacts_root" \in DOMAIN config
                 THEN DictUpdate(config,
                          [projects |-> <<[name |-> "ExecLedger",
                                           artifacts_root |-> config.artifacts_root]>>,
                           active_project |-> "ExecLedger"])
                 ELSE config
             normalized ==
                 IF "projects" \in DOMAIN migrated
                 THEN DictUpdate(migrated,
                          [projects |-> [i \in 1..Len(migrated.projects) |->
                               normalize_project_entry(migrated.projects[i])]])
                 ELSE migrated
         IN  DictUpdate(defaults, normalized)

\* a mutant of save_config: the file is written once, and kept afterwards
save_config_once(c, f, d) ==
    IF d = "ok" /\ f.state # "json" THEN JsonFile(c)
    ELSE IF d = "failing" THEN CorruptFile
    ELSE f

\* Config.save_config: json.dump of the whole dictionary.  The exception is
\* caught: when open(config_file, 'w') raises, the file keeps what it held;
\* when json.dump raises, open has truncated the file and what is left of it
\* does not parse
save_config(c, f, d) ==
    IF d = "ok" THEN JsonFile(c)
    ELSE IF d = "unwritable" THEN f
    ELSE CorruptFile

\* Config.get_projects
get_projects(c) == DictGet(c, "projects", defaults.projects)

\* Config.get_active_project_name
get_active_project_name(c) == DictGet(c, "active_project", defaults.active_project)

\* the positions of the projects called name
IndexesOf(projects, name) == {i \in 1..Len(projects) : projects[i].name = name}

\* the first position of a project called name (there is one)
FirstIndexOf(projects, name) ==
    CHOOSE i \in IndexesOf(projects, name) : \A j \in IndexesOf(projects, name) : i <= j

\* Config.get_active_project is not None
has_active_project(c) ==
    IndexesOf(get_projects(c), get_active_project_name(c)) # {}

\* Config.get_active_project, when there is one
get_active_project(c) ==
    get_projects(c)[FirstIndexOf(get_projects(c), get_active_project_name(c))]

\* Config.get_active_artifacts_root
get_active_artifacts_root(c) ==
    IF has_active_project(c)
    THEN DictGet(get_active_project(c), "artifacts_root", defaults.artifacts_root)
    ELSE DictGet(c, "artifacts_root", defaults.artifacts_root)

(***************************************************************************)
(* The operations of the store.  Each returns the dictionary it leaves.    *)
(***************************************************************************)
\* Config.set_projects, without its save
set_projects(c, projects) == DictUpdate(c, [projects |-> projects])

\* Config.set_active_project_name, without its save
set_active_project_name(c, name) == DictUpdate(c, [active_project |-> name])

\* a mutant of upsert_project: the list is not searched, the entry is appended
upsert_project_appends(c, name, root) ==
    LET project_root == normalize_project_root(root)
    IN  set_projects(c, Append(get_projects(c),
            ProjectEntry(name, project_root, derive_artifacts_root(project_root))))

\* Config.upsert_project
upsert_project(c, name, root) ==
    LET project_root == normalize_project_root(root)
        projects == get_projects(c)
        artifacts_root == derive_artifacts_root(project_root)
    IN  set_projects(c,
            IF IndexesOf(projects, name) # {}
            THEN LET i == FirstIndexOf(projects, name)
                 IN  [projects EXCEPT ![i].project_root = project_root,
                                      ![i].artifacts_root = artifacts_root]
            ELSE Append(projects, ProjectEntry(name, project_root, artifacts_root)))

\* the list comprehension of remove_project
WithoutName(projects, name) == SelectSeq(projects, LAMBDA p : p.name # name)

\* Config.remove_project: whether it returns True
remove_project_ret(c, name) == ~(Len(get_projects(c)) <= 1)

\* Config.remove_project: the dictionary that its first save writes, in
\* set_projects, before the active project is reassigned
remove_project_first_write(c, name) ==
    set_projects(c, WithoutName(get_projects(c), name))

\* a mutant of remove_project: the last project is not protected
remove_project_unguarded(c, name) ==
    LET projects == WithoutName(get_projects(c), name)
        removed == set_projects(c, projects)
    IN  IF get_active_project_name(removed) = name /\ projects # << >>
        THEN set_active_project_name(removed, projects[1].name)
        ELSE removed

\* a mutant of remove_project: the active project is not reassigned
remove_project_keeps_active(c, name) ==
    IF Len(get_projects(c)) <= 1 THEN c
    ELSE set_projects(c, WithoutName(get_projects(c), name))

\* a mutant of remove_project: the last remaining project becomes active
remove_project_last_active(c, name) ==
    IF Len(get_projects(c)) <= 1 THEN c
    ELSE LET projects == WithoutName(get_projects(c), name)
             removed == set_projects(c, projects)
         IN  IF get_active_project_name(removed) = name /\ projects # << >>
             THEN set_active_project_name(removed, projects[Len(projects)].name)
             ELSE removed

\* Config.remove_project: the dictionary it leaves
remove_project(c, name) ==
    IF Len(get_projects(c)) <= 1 THEN c
    ELSE LET projects == WithoutName(get_projects(c), name)
             removed == set_projects(c, projects)
         IN  IF get_active_project_name(removed) = name /\ projects # << >>
             THEN set_active_project_name(removed, projects[1].name)
             ELSE removed

\* Config.set_active_project_by_name: whether it returns True
set_active_project_by_name_ret(c, name) == IndexesOf(get_projects(c), name) # {}

\* a mutant of set_active_project_by_name: the name is not looked up
set_active_project_by_name_any(c, name) == set_active_project_name(c, name)

\* Config.set_active_project_by_name: the dictionary it leaves
set_active_project_by_name(c, name) ==
    IF set_active_project_by_name_ret(c, name)
    THEN set_active_project_name(c, name)
    ELSE c

\* a mutant of the artifacts_root setter: the value itself is stored as the
\* artifacts root
set_artifacts_root_direct(c, value) ==
    IF has_active_project(c)
    THEN LET projects == get_projects(c)
             i == FirstIndexOf(projects, get_active_project_name(c))
         IN  set_projects(c, [projects EXCEPT ![i].project_root = value,
                                              ![i].artifacts_root = value])
    ELSE DictUpdate(c, [artifacts_root |-> value])

\* a mutant of the artifacts_root setter: the legacy field is written as well
set_artifacts_root_and_legacy(c, value) ==
    IF has_active_project(c)
    THEN LET projects == get_projects(c)
             i == FirstIndexOf(projects, get_active_project_name(c))
         IN  DictUpdate(
                 set_projects(c,
                     [projects EXCEPT ![i].project_root = value,
                                      ![i].artifacts_root = derive_artifacts_root(value)]),
                 [artifacts_root |-> value])
    ELSE DictUpdate(c, [artifacts_root |-> value])

\* Config.artifacts_root (setter)
set_artifacts_root(c, value) ==
    IF has_active_project(c)
    THEN LET projects == get_projects(c)
             i == FirstIndexOf(projects, get_active_project_name(c))
         IN  set_projects(c,
                 [projects EXCEPT ![i].project_root = value,
                                  ![i].artifacts_root = derive_artifacts_root(value)])
    ELSE DictUpdate(c, [artifacts_root |-> value])

\* a mutant of the tier setter: every value is accepted
tier_valid_any(value) == TRUE

\* Config.tier (setter): whether the value is accepted (else ValueError)
tier_valid(value) == value \in {"FREE", "PRO", "PREMIUM"}

\* Config.tier (setter): the dictionary it leaves
set_tier(c, value) ==
    IF tier_valid(value) THEN DictUpdate(c, [tier |-> value]) ELSE c

\* Config.dev_mode (setter): value is the truth of what is assigned
set_dev_mode(c, value) == DictUpdate(c, [dev_mode |-> IF value THEN 1 ELSE 0])

(***************************************************************************)
(* Inputs                                                                  *)
(***************************************************************************)
Names == {"ExecLedger", "X", "Y"}

TierValues == {"FREE", "PRO", "PREMIUM", "ULTRA"}

\* the raw paths of at most n segments
RECURSIVE PathsUpTo(_)
PathsUpTo(n) ==
    IF n = 0 THEN {<< >>}
    ELSE PathsUpTo(n - 1) \cup
         {Append(p, s) : p \in {q \in PathsUpTo(n - 1) : Len(q) = n - 1},
                         s \in Segments}

RawPaths == PathsUpTo(MaxDepth)

\* path followed by n segments seg
RECURSIVE Repeated(_, _, _)
Repeated(path, seg, n) ==
    IF n = 0 THEN path ELSE Append(Repeated(path, seg, n - 1), seg)

\* the project roots handed to the store: /a, /a/execledger, /a/_artifacts,
\* /a/execledger/execledger, ... and /a/my_artifacts
StoreRoots ==
    {Repeated(<<"a">>, seg, n) : seg \in {"execledger", "_artifacts"},
                                 n \in 0..MaxTail}
    \cup {<<"a", "my_artifacts">>}

(***************************************************************************)
(* Calls                                                                   *)
(***************************************************************************)
\* name: the project name or the tier given; value: the path given; ret: what
\* the call returned (FALSE also when it raised); was_active: the call named
\* the project that was active when it was made; disk: what its saves met
Call(kind, name, value, ret) ==
    [kind |-> kind, name |-> name, value |-> value, ret |-> ret,
     was_active |-> kind = "remove_project" /\ get_active_project_name(cfg) = name,
     disk |-> disk]

NoScenario == [stage |-> 0, name |-> "", root |-> << >>]

\* Config(): a store constructed from the file as it is
Construct ==
    /\ cfg' = load_config(file)
    /\ op' = Call("construct", "", << >>, TRUE)
    /\ scenario' = IF scenario.stage = 2
                   THEN [scenario EXCEPT !.stage = 3]
                   ELSE NoScenario
    /\ UNCHANGED <<file, disk, pathVars, engineVars>>

UpsertProject(name, root) ==
    /\ cfg' = upsert_project(cfg, name, root)
    /\ file' = save_config(cfg', file, disk)
    /\ op' = Call("upsert_project", name, root, TRUE)
    /\ scenario' = IF disk = "ok"
                   THEN [stage |-> 1, name |-> name, root |-> root]
                   ELSE NoScenario
    /\ UNCHANGED <<disk, pathVars, engineVars>>

RemoveProject(name) ==
    /\ cfg' = remove_project(cfg, name)
    /\ file' = IF remove_project_ret(cfg, name)
               THEN save_config(cfg', file, disk)
               ELSE file
    /\ op' = Call("remove_project", name, << >>, remove_project_ret(cfg, name))
    /\ scenario' = NoScenario
    /\ UNCHANGED <<disk, pathVars, engineVars>>

SetActiveProjectByName(name) ==
    /\ cfg' = set_active_project_by_name(cfg, name)
    /\ file' = IF set_active_project_by_name_ret(cfg, name)
               THEN save_config(cfg', file, disk)
               ELSE file
    /\ op' = Call("set_active_project_by_name", name, << >>,
                  set_active_project_by_name_ret(cfg, name))
    /\ scenario' = IF /\ scenario.stage = 1
                      /\ scenario.name = name
                      /\ disk = "ok"
                   THEN [scenario EXCEPT !.stage = 2]
                   ELSE NoScenario
    /\ UNCHANGED <<disk, pathVars, engineVars>>

SetArtifactsRoot(value) ==
    /\ cfg' = set_artifacts_root(cfg, value)
    /\ file' = save_config(cfg', file, disk)
    /\ op' = Call("artifacts_root", "", value, TRUE)
    /\ scenario' = NoScenario
    /\ UNCHANGED <<disk, pathVars, engineVars>>

\* ret is FALSE when the setter raises ValueError
SetTier(value) ==
    /\ cfg' = set_tier(cfg, value)
    /\ file' = IF tier_valid(value) THEN save_config(cfg', file, disk) ELSE file
    /\ op' = Call("tier", value, << >>, tier_valid(value))
    /\ scenario' = NoScenario
    /\ UNCHANGED <<disk, pathVars, engineVars>>

SetDevMode(value) ==
    /\ cfg' = set_dev_mode(cfg, value)
    /\ file' = save_config(cfg', file, disk)
    /\ op' = Call("dev_mode", "", << >>, TRUE)
    /\ scenario' = NoScenario
    /\ UNCHANGED <<disk, pathVars, engineVars>>

\* the destination stops or starts taking writes
DiskChanges(d) ==
    /\ d # disk
    /\ disk' = d
    /\ UNCHANGED <<cfg, file, op, scenario, pathVars, engineVars>>

(***************************************************************************)
(* The gateway to the Node engine: values                                  *)
(***************************************************************************)
\* Python's None
None == [type |-> "NoneType"]

\* bytes that are not UTF-8
Undecodable == "\\xff"

\* what the engine writes to its standard output: a contract, the JSON
\* literal null, text that is not JSON, nothing, or bytes that are not UTF-8
Stdouts == {"{\"exec_id\": \"e1\"}", "null", "no session found", "", Undecodable}

\* what the engine writes to its standard error
Stderrs == {"", "Error: ENOENT"}

\* the exit codes of the engine
ExitCodes == {0, 1}

\* json.loads(s) returns (else it raises json.JSONDecodeError)
json_parses(s) == s \in {"{\"exec_id\": \"e1\"}", "null"}

\* json.loads(s), when it returns
json_loads(s) == IF s = "null" THEN None ELSE [type |-> "dict", text |-> s]

\* str(e) of the json.JSONDecodeError that json.loads(s) raises
JSONDecodeError(s) == "Expecting value: line 1 column 1 (char 0)"

\* a child process: it exited, it outlived the timeout, or it never started
Exited(code, stdout, stderr) ==
    [kind |-> "exited", code |-> code, stdout |-> stdout, stderr |-> stderr]

TimedOut == [kind |-> "timeout"]

NotLaunched(text) == [kind |-> "not launched", text |-> text]

NoChild == [kind |-> "none"]

LaunchErrors == {"[Errno 2] No such file or directory: 'node'",
                 "[Errno 13] Permission denied: 'node'"}

Children ==
    {Exited(code, stdout, stderr) :
        code \in ExitCodes, stdout \in Stdouts, stderr \in Stderrs}
    \cup {TimedOut}
    \cup {NotLaunched(text) : text \in LaunchErrors}

\* EngineResult.__init__; stderr is the sequence of the pieces of its text
EngineResult(ok, contract, stdout, stderr, code, cmd) ==
    [code |-> code, stdout |-> stdout, stderr |-> stderr, ok |-> ok,
     contract |-> contract, cmd |-> cmd]

\* str(e) of the UnicodeDecodeError that subprocess.run raises on the output
UnicodeDecodeError ==
    "'utf-8' codec can't decode byte 0xff in position 0: invalid start byte"

\* a mutant of _execute_engine: TimeoutExpired has no handler of its own
execute_engine_no_timeout(cmd, c) ==
    IF c.kind = "exited" /\ c.stdout # Undecodable
    THEN IF c.code = 0 /\ json_parses(c.stdout)
         THEN EngineResult(TRUE, json_loads(c.stdout), c.stdout, <<c.stderr>>,
                           c.code, cmd)
         ELSE IF c.code = 0
         THEN EngineResult(FALSE, None, c.stdout,
                           <<"JSON parse error: ", JSONDecodeError(c.stdout),
                             "\\n", c.stderr>>,
                           c.code, cmd)
         ELSE EngineResult(FALSE, None, c.stdout, <<c.stderr>>, c.code, cmd)
    ELSE EngineResult(FALSE, None, "",
                      <<"Engine execution failed: ",
                        IF c.kind = "exited" THEN UnicodeDecodeError
                        ELSE IF c.kind = "timeout"
                        THEN "Command timed out after 30 seconds"
                        ELSE c.text>>,
                      -1, cmd)

\* EngineClient._execute_engine: the result made of what the child did
execute_engine(cmd, c) ==
    IF c.kind = "exited" /\ c.stdout # Undecodable
    THEN IF c.code = 0 /\ json_parses(c.stdout)
         THEN EngineResult(TRUE, json_loads(c.stdout), c.stdout, <<c.stderr>>,
                           c.code, cmd)
         ELSE IF c.code = 0
         THEN EngineResult(FALSE, None, c.stdout,
                           <<"JSON parse error: ", JSONDecodeError(c.stdout),
                             "\\n", c.stderr>>,
                           c.code, cmd)
         ELSE EngineResult(FALSE, None, c.stdout, <<c.stderr>>, c.code, cmd)
    ELSE IF c.kind = "timeout"
    THEN EngineResult(FALSE, None, "", <<"Engine timeout after 30s">>, -1, cmd)
    ELSE EngineResult(FALSE, None, "",
                      <<"Engine execution failed: ",
                        IF c.kind = "exited" THEN UnicodeDecodeError ELSE c.text>>,
                      -1, cmd)

\* EngineClient._get_engine_path, when the file exists
engine_path == "/repo/desktop-companion/engine/src/index.js"

\* an optional argument: << >> when it is left out (None), else <<value>>
Truthy(arg) == Len(arg) = 1 /\ arg[1] # ""

\* the command line of EngineClient.get_latest_session
latest_cmd(root) == <<"node", engine_path, "--root", root, "--latest">>

\* the command line of EngineClient.get_specific_session
specific_cmd(root, exec_id, session_id) ==
    <<"node", engine_path, "--root", root, "--exec", exec_id,
      "--session", session_id>>

\* a mutant of export_contract_to_file: ids that are given are used, empty
\* or not
export_cmd_given(root, output_file, exec_id, session_id) ==
    <<"node", engine_path, "--root", root, "--out", output_file>>
    \o (IF Len(exec_id) = 1 /\ Len(session_id) = 1
        THEN <<"--exec", exec_id[1], "--session", session_id[1]>>
        ELSE <<"--latest">>)

\* the command line of EngineClient.export_contract_to_file
export_cmd(root, output_file, exec_id, session_id) ==
    <<"node", engine_path, "--root", root, "--out", output_file>>
    \o (IF Truthy(exec_id) /\ Truthy(session_id)
        THEN <<"--exec", exec_id[1], "--session", session_id[1]>>
        ELSE <<"--latest">>)

\* a mutant of the assignment to last_result: a failure is not kept
store_result_ok(previous, engine_result) ==
    IF engine_result.ok THEN engine_result ELSE previous

\* self.last_result = engine_result: what last_result holds afterwards
store_result(previous, engine_result) == engine_result

InitEngineVars ==
    /\ client = "none"
    /\ last_result = None
    /\ child = NoChild
    /\ returned = [kind |-> "none"]

(***************************************************************************)
(* The store, from a first start: no ui_config.json yet                    *)
(***************************************************************************)
InitPathVars ==
    /\ pfn = "none"
    /\ parg = << >>
    /\ pres = << >>

Init ==
    /\ file = NoFile
    /\ cfg = load_config(file)
    /\ disk = "ok"
    /\ op = Call("construct", "", << >>, TRUE)
    /\ scenario = NoScenario
    /\ InitPathVars
    /\ InitEngineVars

Next ==
    \/ Construct
    \/ \E name \in Names, root \in StoreRoots : UpsertProject(name, root)
    \/ \E name \in Names : RemoveProject(name)
    \/ \E name \in Names : SetActiveProjectByName(name)
    \/ \E value \in StoreRoots : SetArtifactsRoot(value)
    \/ \E value \in TierValues : SetTier(value)

Spec == Init /\ [][Next]_vars

(***************************************************************************)
(* The path functions, applied to every raw path                           *)
(***************************************************************************)
InitPath ==
    /\ file = NoFile
    /\ cfg = load_config(file)
    /\ disk = "ok"
    /\ op = Call("construct", "", << >>, TRUE)
    /\ scenario = NoScenario
    /\ pfn = "none"
    /\ parg \in RawPaths
    /\ pres = << >>
    /\ InitEngineVars

\* normalize_project_root(parg)
NormalizeCall ==
    /\ pfn = "none"
    /\ pfn' = "normalize_project_root"
    /\ pres' = normalize_project_root(parg)
    /\ UNCHANGED <<parg, storeVars, engineVars>>

\* normalize_project_root(normalize_project_root(parg))
NormalizeAgainCall ==
    /\ pfn = "normalize_project_root"
    /\ pfn' = "normalize_project_root twice"
    /\ pres' = normalize_project_root(pres)
    /\ UNCHANGED <<parg, storeVars, engineVars>>

\* derive_artifacts_root(parg)
DeriveCall ==
    /\ pfn = "none"
    /\ pfn' = "derive_artifacts_root"
    /\ pres' = derive_artifacts_root(parg)
    /\ UNCHANGED <<parg, storeVars, engineVars>>

NextPath ==
    \/ NormalizeCall
    \/ NormalizeAgainCall
    \/ DeriveCall

SpecPath == InitPath /\ [][NextPath]_vars

(***************************************************************************)
(* The store, constructed over a ui_config.json that is already there      *)
(***************************************************************************)
\* most projects in a file found at start
MaxFileProjects == 2

\* the sequences over S of at most n elements
RECURSIVE SeqsUpTo(_, _)
SeqsUpTo(S, n) ==
    IF n = 0 THEN {<< >>}
    ELSE SeqsUpTo(S, n - 1) \cup
         {Append(q, x) : q \in {r \in SeqsUpTo(S, n - 1) : Len(r) = n - 1}, x \in S}

\* the project names of a file, and those handed to a store constructed over it
LoadedNames == {"ExecLedger", "X"}

\* project entries of a file: in the two-field schema, and in the legacy one
FileEntries ==
    {ProjectEntry(name, root, <<"a", "_artifacts">>) :
        name \in LoadedNames, root \in {<<"a">>, <<"a", "execledger">>}}
    \cup {[name |-> "X", artifacts_root |-> <<"a", "_artifacts">>]}

LegacyRoots == {<<"a">>, <<"a", "_artifacts">>, <<"a", "execledger">>,
                <<"a", "my_artifacts">>, <<"a", "b", "_artifacts">>,
                <<"a", "execledger", "_artifacts">>, <<"a", "EXECLEDGER">>}

InitialFiles ==
    {NoFile, CorruptFile, JsonFile([dev_mode |-> 0])}
    \cup {JsonFile([artifacts_root |-> root]) : root \in LegacyRoots}
    \cup {JsonFile([projects |-> projects, active_project |-> name]) :
             projects \in SeqsUpTo(FileEntries, MaxFileProjects),
             name \in LoadedNames}

InitLoaded ==
    /\ file \in InitialFiles
    /\ cfg = load_config(file)
    /\ disk = "ok"
    /\ op = Call("construct", "", << >>, TRUE)
    /\ scenario = NoScenario
    /\ InitPathVars
    /\ InitEngineVars

\* the project roots handed to a store constructed over a file: /a,
\* /a/execledger, /a/execledger/execledger and the raw /a/.
LoadedRoots ==
    {Repeated(<<"a">>, "execledger", n) : n \in 0..2} \cup {<<"a", ".">>}

NextLoaded ==
    \/ Construct
    \/ \E name \in LoadedNames, root \in LoadedRoots : UpsertProject(name, root)
    \/ \E name \in LoadedNames : RemoveProject(name)
    \/ \E name \in LoadedNames : SetActiveProjectByName(name)
    \/ \E value \in LoadedRoots : SetArtifactsRoot(value)
    \/ \E value \in {"FREE", "ULTRA"} : SetTier(value)

SpecLoaded == InitLoaded /\ [][NextLoaded]_vars

(***************************************************************************)
(* The store over a destination that may refuse or break a write           *)
(***************************************************************************)
DiskStates == {"ok", "unwritable", "failing"}

NextDisk ==
    \/ Construct
    \/ \E name \in LoadedNames : UpsertProject(name, <<"a">>)
    \/ \E name \in LoadedNames : RemoveProject(name)
    \/ \E name \in LoadedNames : SetActiveProjectByName(name)
    \/ SetArtifactsRoot(<<"a", "execledger">>)
    \/ \E value \in {"FREE", "ULTRA"} : SetTier(value)
    \/ \E value \in BOOLEAN : SetDevMode(value)
    \/ \E d \in DiskStates : DiskChanges(d)

SpecDisk == Init /\ [][NextDisk]_vars

(***************************************************************************)
(* The store in a process that may end between two saves                   *)
(***************************************************************************)
\* remove_project on the active project, ended after the save of
\* set_projects and before the save of set_active_project_name; the
\* application is started again and constructs its store from the file
RemoveProjectInterrupted(name) ==
    /\ remove_project_ret(cfg, name)
    /\ get_active_project_name(cfg) = name
    /\ WithoutName(get_projects(cfg), name) # << >>
    /\ file' = save_config(remove_project_first_write(cfg, name), file, disk)
    /\ cfg' = load_config(file')
    /\ op' = Call("remove_project interrupted", name, << >>, FALSE)
    /\ scenario' = NoScenario
    /\ UNCHANGED <<disk, pathVars, engineVars>>

NextCrash ==
    \/ Construct
    \/ \E name \in Names : UpsertProject(name, <<"a">>)
    \/ \E name \in Names : RemoveProject(name)
    \/ \E name \in Names : SetActiveProjectByName(name)
    \/ \E name \in Names : RemoveProjectInterrupted(name)

SpecCrash == Init /\ [][NextCrash]_vars

(***************************************************************************)
(* The gateway to the Node engine                                          *)
(***************************************************************************)
EngineRoots == {"/a/execledger", "/repo/execledger"}

Ids == {"", "e1"}

OptionalIds == {<< >>} \cup {<<id>> : id \in Ids}

\* EngineClient(): raises FileNotFoundError when the engine script is missing
NewEngineClient(exists) ==
    /\ client = "none"
    /\ IF exists
       THEN /\ client' = "ready"
            /\ last_result' = None
            /\ returned' = [kind |-> "constructed"]
       ELSE /\ returned' = [kind |-> "raised", exc |-> "FileNotFoundError"]
            /\ UNCHANGED <<client, last_result>>
    /\ UNCHANGED <<child, storeVars, pathVars>>

\* the call that was made: its arguments, << >> for one it does not take
EngineCall(method, root, output_file, exec_id, session_id) ==
    [root |-> root, exec_id |-> exec_id, session_id |-> session_id,
     output_file |-> output_file, method |-> method]

\* one run of _execute_engine over a child process that does c
Invoke(method, root, output_file, exec_id, session_id, cmd, c) ==
    /\ client = "ready"
    /\ child' = c
    /\ last_result' = store_result(last_result, execute_engine(cmd, c))
    /\ returned' = [kind |-> "result",
                    call |-> EngineCall(method, root, output_file,
                                        exec_id, session_id),
                    result |-> execute_engine(cmd, c)]
    /\ UNCHANGED <<client, storeVars, pathVars>>

GetLatestSession(root, c) ==
    Invoke("get_latest_session", root, << >>, << >>, << >>,
           latest_cmd(root), c)

GetSpecificSession(root, exec_id, session_id, c) ==
    Invoke("get_specific_session", root, << >>, <<exec_id>>, <<session_id>>,
           specific_cmd(root, exec_id, session_id), c)

ExportContractToFile(root, output_file, exec_id, session_id, c) ==
    Invoke("export_contract_to_file", root, <<output_file>>, exec_id, session_id,
           export_cmd(root, output_file, exec_id, session_id), c)

GetLastDiagnostic ==
    /\ client = "ready"
    /\ returned' = [kind |-> "diagnostic", result |-> last_result]
    /\ UNCHANGED <<client, last_result, child, storeVars, pathVars>>

NextEngine ==
    \/ \E exists \in BOOLEAN : NewEngineClient(exists)
    \/ \E root \in EngineRoots, c \in Children : GetLatestSession(root, c)
    \/ \E root \in EngineRoots, exec_id \in Ids, session_id \in Ids, c \in Children :
           GetSpecificSession(root, exec_id, session_id, c)
    \/ \E root \in EngineRoots, exec_id \in OptionalIds, session_id \in OptionalIds,
          c \in Children :
           ExportContractToFile(root, "/tmp/contract.json", exec_id, session_id, c)
    \/ GetLastDiagnostic

SpecEngine == Init /\ [][NextEngine]_vars

(***************************************************************************)
(* Properties of the path functions (SpecPath)                             *)
(***************************************************************************)
ReservedNames == {"_artifacts", "execledger"}

\* two consecutive segments are both "execledger" or both "_artifacts"
HasDoubledReserved(p) ==
    \E i \in 1..(Len(p) - 1) : p[i] \in ReservedNames /\ p[i + 1] = p[i]

\* C1: normalize_project_root is idempotent: applied to its own result it
\* returns that result, for every path
C1_NormalizeIdempotent ==
    pfn = "normalize_project_root twice" => pres = normalize_project_root(parg)

\* C2: derive_artifacts_root never returns a path in which two consecutive
\* segments are both "execledger" or both "_artifacts"
C2_NoDoubledReserved ==
    pfn = "derive_artifacts_root" => ~HasDoubledReserved(pres)

\* C3: when the final segment of the canonical path is "_artifacts" or
\* "execledger" in any case, normalize_project_root returns the parent of the
\* canonical path; otherwise it returns the canonical path
C3_NormalizeStripsReserved ==
    pfn = "normalize_project_root" =>
        LET canonical == normpath(parg)
        IN  IF canonical # << >> /\ Lower(Last(canonical)) \in ReservedNames
            THEN Append(pres, Last(canonical)) = canonical
            ELSE pres = canonical

\* C3 happens: a root that ends in EXECLEDGER was cut to its parent
C3_Witness ==
    /\ pfn = "normalize_project_root"
    /\ parg = <<"a", ".", "EXECLEDGER">>
    /\ pres = <<"a">>

(***************************************************************************)
(* Properties of the store                                                 *)
(***************************************************************************)
\* C4: every project's artifacts_root is normalize_project_root of its
\* project_root followed by "execledger", after construction (from a file or
\* from the defaults) and after every operation
C4_ArtifactsRootDerived ==
    \A i \in 1..Len(get_projects(cfg)) :
        get_projects(cfg)[i].artifacts_root =
            Append(normalize_project_root(get_projects(cfg)[i].project_root),
                   "execledger")

\* C4 happens: the artifacts_root setter was given /a/execledger and the
\* active project holds it as its root, with /a/execledger derived from it
C4_Witness ==
    /\ op.kind = "artifacts_root"
    /\ has_active_project(cfg)
    /\ get_active_project(cfg).project_root = <<"a", "execledger">>
    /\ get_active_project(cfg).artifacts_root = <<"a", "execledger">>

\* C5: from a store constructed with no file, active_project always names a
\* project of the list
C5_ActiveProjectExists == has_active_project(cfg)

\* C5 happens: the active project was removed and another one is active
C5_Witness ==
    /\ op.kind = "remove_project"
    /\ op.ret
    /\ op.was_active
    /\ has_active_project(cfg)
    /\ get_active_project_name(cfg) # op.name

\* C6: the project list always holds at least one project, after construction
\* from a file or from the defaults and after every operation
C6_AtLeastOneProject == Len(get_projects(cfg)) >= 1

\* C7: remove_project on a store of exactly one project returns False, for
\* every name, and changes neither the dictionary (project list,
\* active_project) nor the file
C7_RemoveLastRejected ==
    [][(op'.kind = "remove_project" /\ Len(get_projects(cfg)) = 1) =>
          (op'.ret = FALSE /\ cfg' = cfg /\ file' = file)]_vars

\* C7 happens: a remove_project was refused on a store of one project
C7_Witness ==
    /\ op.kind = "remove_project"
    /\ op.ret = FALSE
    /\ Len(get_projects(cfg)) = 1
    /\ op.name = get_projects(cfg)[1].name

\* the positions of projects that are not called name
Kept(projects, name) == {i \in 1..Len(projects) : projects[i].name # name}

\* C8: with two projects or more, remove_project(name) returns True, leaves
\* the other projects in the order they had, none called name, and moves
\* active_project to the first remaining project when name was the active
\* one, and leaves it otherwise
C8_RemoveReassignsActive ==
    [][(op'.kind = "remove_project" /\ Len(get_projects(cfg)) >= 2) =>
          LET name == op'.name
              before == get_projects(cfg)
              after == get_projects(cfg')
          IN  /\ op'.ret = TRUE
              /\ Len(after) = Cardinality(Kept(before, name))
              /\ \A i \in Kept(before, name) :
                     after[Cardinality({j \in Kept(before, name) : j <= i})] = before[i]
              /\ IF get_active_project_name(cfg) = name
                 THEN get_active_project_name(cfg') = after[1].name
                 ELSE get_active_project_name(cfg') = get_active_project_name(cfg)]_vars

\* C8 happens: the active project of a store of three was removed, and the
\* first of the two that remain is active
C8_Witness ==
    /\ op.kind = "remove_project"
    /\ op.ret
    /\ op.was_active
    /\ Len(get_projects(cfg)) = 2
    /\ get_active_project_name(cfg) = get_projects(cfg)[1].name

Mutators == {"upsert_project", "artifacts_root", "set_active_project_by_name", "tier"}

\* C9: a store constructed from the file that a mutator has just saved holds
\* the same projects in the same order, the same active_project and the
\* same tier
C9_RoundTrip ==
    (op.kind \in Mutators /\ op.ret /\ file = JsonFile(cfg)) =>
        /\ get_projects(load_config(file)) = get_projects(cfg)
        /\ get_active_project_name(load_config(file)) = get_active_project_name(cfg)
        /\ load_config(file).tier = cfg.tier

\* C10: after upsert_project(X, R), set_active_project_by_name(X) and the
\* construction of a fresh store, where the last segment of R in canonical
\* form is not reserved, the active project is X, its project_root is R in
\* canonical form and its artifacts_root is that followed by "execledger"
C10_EndToEnd ==
    LET R == normpath(scenario.root)
    IN  (scenario.stage = 3 /\ Lower(PathName(R)) \notin ReservedNames) =>
            /\ get_active_project_name(cfg) = scenario.name
            /\ has_active_project(cfg)
            /\ get_active_project(cfg).project_root = R
            /\ get_active_project(cfg).artifacts_root = Append(R, "execledger")

\* C10 happens: upsert_project("X", "/a/."), set_active_project_by_name("X")
\* and a fresh store
C10_Witness ==
    /\ scenario.stage = 3
    /\ scenario.name = "X"
    /\ scenario.root = <<"a", ".">>
    /\ op.kind = "construct"

(***************************************************************************)
(* Properties of the legacy load (SpecLoaded)                              *)
(***************************************************************************)
\* the store has just been constructed over a file of the legacy shape: a
\* top-level artifacts_root and no projects key
LegacyLoaded ==
    /\ op.kind = "construct"
    /\ file.state = "json"
    /\ "projects" \notin DOMAIN file.data
    /\ "artifacts_root" \in DOMAIN file.data

C12_LegacyKept ==
    (LegacyLoaded /\ Lower(PathName(file.data.artifacts_root)) \notin ReservedNames) =>
        /\ Len(get_projects(cfg)) = 1
        /\ get_projects(cfg)[1].project_root = file.data.artifacts_root
        /\ get_projects(cfg)[1].artifacts_root =
               Append(file.data.artifacts_root, "execledger")

(***************************************************************************)
(* Properties of the operations of the store                               *)
(***************************************************************************)
NamesOf(projects) == {projects[i].name : i \in 1..Len(projects)}

UniqueNames(projects) ==
    \A i, j \in 1..Len(projects) : projects[i].name = projects[j].name => i = j

\* C13: upsert_project(name, root) on a name of the list replaces the roots
\* of that entry where it stands and keeps the length; on a new name it
\* appends one entry; the other entries and active_project are as before;
\* and from the default store no two projects ever share a name
C13_UpsertInPlaceOrAppend ==
    [][/\ UniqueNames(get_projects(cfg'))
       /\ op'.kind = "upsert_project" =>
              LET before == get_projects(cfg)
                  after == get_projects(cfg')
                  entry == ProjectEntry(op'.name, normalize_project_root(op'.value),
                               Append(normalize_project_root(
                                          normalize_project_root(op'.value)),
                                      "execledger"))
              IN  /\ get_active_project_name(cfg') = get_active_project_name(cfg)
                  /\ IF op'.name \in NamesOf(before)
                     THEN /\ Len(after) = Len(before)
                          /\ \A i \in 1..Len(before) :
                                 after[i] = IF before[i].name = op'.name
                                            THEN entry
                                            ELSE before[i]
                     ELSE /\ Len(after) = Len(before) + 1
                          /\ after[Len(after)] = entry
                          /\ \A i \in 1..Len(before) : after[i] = before[i]]_vars

\* C13 happens: the first of three projects was given the root /a/_artifacts
\* and stands first, rooted at /a
C13_Witness ==
    /\ op.kind = "upsert_project"
    /\ op.value = <<"a", "_artifacts">>
    /\ Len(get_projects(cfg)) = 3
    /\ get_projects(cfg)[1] = ProjectEntry(op.name, <<"a">>, <<"a", "execledger">>)

\* C14: set_active_project_by_name(name) returns True exactly when a project
\* is called name; then active_project is name, the list is as before and
\* the file holds the dictionary; otherwise nothing changes, the file included
C14_SetActiveOnlyIfExists ==
    [][op'.kind = "set_active_project_by_name" =>
          IF op'.name \in NamesOf(get_projects(cfg))
          THEN /\ op'.ret = TRUE
               /\ get_active_project_name(cfg') = op'.name
               /\ get_projects(cfg') = get_projects(cfg)
               /\ file' = JsonFile(cfg')
          ELSE /\ op'.ret = FALSE
               /\ cfg' = cfg
               /\ file' = file]_vars

\* C14 happens: a name that no project has was refused
C14_Witness ==
    /\ op.kind = "set_active_project_by_name"
    /\ op.ret = FALSE
    /\ op.name \notin NamesOf(get_projects(cfg))
    /\ get_active_project_name(cfg) # op.name

\* C15: get_active_project_name returns the default name whenever the stored
\* active_project names no project of the list
C15_DefaultWhenStale ==
    ~has_active_project(cfg) =>
        get_active_project_name(cfg) = defaults.active_project

\* C16: the tier setter stores and saves FREE, PRO and PREMIUM, refuses every
\* other value and then changes nothing, the file included; the tier is
\* always one of the three
C16_TierValidated ==
    [][/\ cfg'.tier \in {"FREE", "PRO", "PREMIUM"}
       /\ op'.kind = "tier" =>
              IF op'.name \in {"FREE", "PRO", "PREMIUM"}
              THEN /\ op'.ret = TRUE
                   /\ cfg' = [k \in DOMAIN cfg |->
                                 IF k = "tier" THEN op'.name ELSE cfg[k]]
                   /\ file' = JsonFile(cfg')
              ELSE /\ op'.ret = FALSE
                   /\ cfg' = cfg
                   /\ file' = file]_vars

\* C16 happens: ULTRA was refused after FREE had been stored
C16_Witness ==
    /\ op.kind = "tier"
    /\ op.name = "ULTRA"
    /\ op.ret = FALSE
    /\ cfg.tier = "FREE"
    /\ file = JsonFile(cfg)

(***************************************************************************)
(* Properties of saving (SpecDisk)                                         *)
(***************************************************************************)
\* the calls that save when they succeed
SavingCalls == Mutators \cup {"remove_project", "dev_mode"}

\* C17: when a mutator has succeeded and its save did not fail, the file
\* holds the whole dictionary of the store
C17_SavedOnReturn ==
    (op.kind \in SavingCalls /\ op.ret /\ op.disk = "ok") => file = JsonFile(cfg)

\* C17 happens: dev_mode was written to a destination that took the write,
\* after a project had been added
C17_Witness ==
    /\ op.kind = "dev_mode"
    /\ op.disk = "ok"
    /\ cfg.dev_mode = 0
    /\ Len(get_projects(cfg)) = 2
    /\ file = JsonFile(cfg)

\* C18: when the save of a mutator fails, the mutator returns normally, the
\* dictionary holds the new value and the file holds what it held before;
\* a later save that does not fail writes the whole dictionary
C18_FailedSaveKeepsFile ==
    [][(op'.kind \in SavingCalls /\ op'.ret) =>
          IF op'.disk = "ok"
          THEN file' = JsonFile(cfg')
          ELSE /\ file' = file
               /\ op'.kind = "upsert_project" =>
                      op'.name \in NamesOf(get_projects(cfg'))
               /\ op'.kind = "remove_project" =>
                      op'.name \notin NamesOf(get_projects(cfg'))
               /\ op'.kind = "set_active_project_by_name" =>
                      get_active_project_name(cfg') = op'.name
               /\ op'.kind = "tier" => cfg'.tier = op'.name]_vars

(***************************************************************************)
(* Properties of the artifacts_root setter (SpecLoaded)                    *)
(***************************************************************************)
\* C19: artifacts_root := V with an active project changes that project
\* only: its artifacts_root becomes normalize_project_root(V) + execledger,
\* the other projects, active_project, tier and the legacy field are as
\* before; with no active project it changes the legacy artifacts_root field
\* only, to V
C19_SetterFrame ==
    [][op'.kind = "artifacts_root" =>
          IF has_active_project(cfg)
          THEN LET before == get_projects(cfg)
                   after == get_projects(cfg')
                   i == FirstIndexOf(before, get_active_project_name(cfg))
               IN  /\ Len(after) = Len(before)
                   /\ after[i].name = before[i].name
                   /\ after[i].artifacts_root =
                          Append(normalize_project_root(op'.value), "execledger")
                   /\ \A j \in 1..Len(before) : j # i => after[j] = before[j]
                   /\ DOMAIN cfg' = DOMAIN cfg
                   /\ \A k \in DOMAIN cfg \ {"projects"} : cfg'[k] = cfg[k]
          ELSE /\ DOMAIN cfg' = DOMAIN cfg
               /\ cfg'.artifacts_root = op'.value
               /\ \A k \in DOMAIN cfg \ {"artifacts_root"} : cfg'[k] = cfg[k]]_vars

\* C19 happens: /a/execledger was written while active_project named none of
\* the projects, and is the legacy field now
C19_Witness ==
    /\ op.kind = "artifacts_root"
    /\ op.value = <<"a", "execledger">>
    /\ Len(get_projects(cfg)) >= 1
    /\ ~has_active_project(cfg)
    /\ cfg.artifacts_root = op.value

(***************************************************************************)
(* Properties of the gateway (SpecEngine)                                  *)
(***************************************************************************)
\* C20: a result has ok exactly when the child exited with code 0 and its
\* standard output parsed as JSON; when the child exited with another code
\* the result has ok false, no contract, and the exit code, the standard
\* output and the standard error of the child
C20_OkIffExitZeroAndJson ==
    returned.kind = "result" =>
        /\ returned.result.ok =
               (child.kind = "exited" /\ child.code = 0 /\ json_parses(child.stdout))
        /\ (child.kind = "exited" /\ child.code # 0) =>
               /\ returned.result.ok = FALSE
               /\ returned.result.contract = None
               /\ returned.result.code = child.code
               /\ returned.result.stdout = child.stdout
               /\ returned.result.stderr = <<child.stderr>>

\* the text of a diagnostic stream holds the piece
Mentions(stderr, piece) == \E i \in 1..Len(stderr) : stderr[i] = piece

\* the diagnostic stream ends with the standard error of the child, and the
\* parse error stands before it
ParseErrorThenStderr(stderr, stdout, child_stderr) ==
    /\ Len(stderr) >= 2
    /\ stderr[Len(stderr)] = child_stderr
    /\ \E i \in 1..(Len(stderr) - 1) : stderr[i] = JSONDecodeError(stdout)

\* C21: when the child exited with code 0 and its standard output is not
\* JSON, the result has ok false, no contract, exit code 0, the standard
\* output as the child wrote it, and a diagnostic stream with the parse
\* error followed by the standard error of the child
C21_ParseFailure ==
    (/\ returned.kind = "result"
     /\ child.kind = "exited"
     /\ child.code = 0
     /\ ~json_parses(child.stdout)) =>
        /\ returned.result.ok = FALSE
        /\ returned.result.contract = None
        /\ returned.result.code = 0
        /\ returned.result.stdout = child.stdout
        /\ ParseErrorThenStderr(returned.result.stderr, child.stdout, child.stderr)

\* C22: when the child outlived the timeout the caller holds a result with
\* ok false, no contract, exit code -1, an empty standard output and a
\* diagnostic that names the timeout
C22_Timeout ==
    (child.kind = "timeout" /\ returned.kind # "diagnostic") =>
        /\ returned.kind = "result"
        /\ returned.result.ok = FALSE
        /\ returned.result.contract = None
        /\ returned.result.code = -1
        /\ returned.result.stdout = ""
        /\ Mentions(returned.result.stderr, "Engine timeout after 30s")

\* C22 happens: export_contract_to_file ran over a child that outlived the
\* timeout
C22_Witness ==
    /\ child.kind = "timeout"
    /\ returned.kind = "result"
    /\ returned.call.method = "export_contract_to_file"
    /\ returned.result.code = -1
    /\ last_result = returned.result

\* C23: no call on the gateway raises, its construction included; when the
\* child could not be launched the caller holds a result with ok false, exit
\* code -1 and the text of the exception as diagnostic
C23_NeverRaises ==
    /\ returned.kind # "raised"
    /\ (returned.kind = "result" /\ child.kind = "not launched") =>
           /\ returned.result.ok = FALSE
           /\ returned.result.code = -1
           /\ Mentions(returned.result.stderr, child.text)

\* C24: get_last_diagnostic returns None before the first invocation, and
\* afterwards the result that the most recent invocation returned, whatever
\* its outcome
C24_LastDiagnostic ==
    [][returned'.kind = "diagnostic" =>
          returned'.result = IF returned.kind = "constructed"
                             THEN None
                             ELSE returned.result]_vars

\* C24 happens: get_last_diagnostic gave the result of a run that timed out
C24_Witness ==
    /\ returned.kind = "diagnostic"
    /\ child.kind = "timeout"
    /\ returned.result = last_result
    /\ last_result # None
    /\ last_result.stderr = <<"Engine timeout after 30s">>

\* the command line holds the flag followed by the value
HasOption(cmd, flag, value) ==
    \E i \in 1..(Len(cmd) - 1) : cmd[i] = flag /\ cmd[i + 1] = value

\* how many arguments of the command line are the word
Count(cmd, word) == Cardinality({i \in 1..Len(cmd) : cmd[i] = word})

\* the session selector of the command line is --latest, and nothing else
SelectsLatest(cmd) ==
    /\ Count(cmd, "--latest") = 1
    /\ Count(cmd, "--exec") = 0
    /\ Count(cmd, "--session") = 0

\* the session selector of the command line is the pair, and nothing else
SelectsSession(cmd, exec_id, session_id) ==
    /\ Count(cmd, "--latest") = 0
    /\ Count(cmd, "--exec") = 1
    /\ Count(cmd, "--session") = 1
    /\ \E i \in 1..(Len(cmd) - 3) :
           /\ cmd[i] = "--exec"
           /\ cmd[i + 1] = exec_id
           /\ cmd[i + 2] = "--session"
           /\ cmd[i + 3] = session_id

\* C25: every command line holds --root with the artifacts root and one
\* session selector, --latest or the pair --exec, --session;
\* export_contract_to_file takes the pair when both ids are given and not
\* empty, --latest otherwise, and it alone adds --out with the file
C25_CommandLine ==
    returned.kind = "result" =>
        LET call == returned.call
            cmd == returned.result.cmd
        IN  /\ HasOption(cmd, "--root", call.root)
            /\ call.method = "get_latest_session" =>
                   SelectsLatest(cmd) /\ Count(cmd, "--out") = 0
            /\ call.method = "get_specific_session" =>
                   /\ SelectsSession(cmd, call.exec_id[1], call.session_id[1])
                   /\ Count(cmd, "--out") = 0
            /\ call.method = "export_contract_to_file" =>
                   /\ Count(cmd, "--out") = 1
                   /\ HasOption(cmd, "--out", call.output_file[1])
                   /\ IF /\ call.exec_id \notin {<< >>, <<"">>}
                         /\ call.session_id \notin {<< >>, <<"">>}
                      THEN SelectsSession(cmd, call.exec_id[1], call.session_id[1])
                      ELSE SelectsLatest(cmd)

\* C25 happens: export_contract_to_file was given an exec_id and an empty
\* session_id, and asked for the latest session
C25_Witness ==
    /\ returned.kind = "result"
    /\ returned.call.method = "export_contract_to_file"
    /\ returned.call.exec_id = <<"e1">>
    /\ returned.call.session_id = <<"">>
    /\ SelectsLatest(returned.result.cmd)

(***************************************************************************)
(* More properties of the path functions (SpecPath)                        *)
(***************************************************************************)
\* parg is R + "/_artifacts" for a canonical root R whose final segment is
\* not reserved, and derive_artifacts_root was applied to it
DerivedFromArtifactsOf(R) ==
    /\ pfn = "derive_artifacts_root"
    /\ parg = Append(R, "_artifacts")
    /\ R = normpath(R)
    /\ R = << >> \/ Lower(Last(R)) \notin ReservedNames

C27_WrittenPointerValid ==
    file.state = "json" => has_active_project(file.data)

(***************************************************************************)
(* More properties of the operations of the store (Spec)                   *)
(***************************************************************************)
\* C28: remove_project(name) returns True only when a project called name
\* was removed, the list being one entry shorter; when no project is called
\* name it returns False and changes nothing
C28_RemoveReportsRemoval ==
    [][op'.kind = "remove_project" =>
          LET before == get_projects(cfg)
              after == get_projects(cfg')
          IN  /\ op'.ret =>
                     /\ op'.name \in NamesOf(before)
                     /\ op'.name \notin NamesOf(after)
                     /\ Len(after) = Len(before) - 1
              /\ op'.name \notin NamesOf(before) =>
                     /\ op'.ret = FALSE
                     /\ cfg' = cfg
                     /\ file' = file]_vars

\* C29: after any mutating operations every stored project_root is
\* normalized: normalize_project_root leaves it as it is, its final segment
\* is not reserved, and it is not the artifacts_root of its project
C29_StoredRootsNormalized ==
    \A i \in 1..Len(get_projects(cfg)) :
        LET project == get_projects(cfg)[i]
        IN  /\ normalize_project_root(project.project_root) = project.project_root
            /\ \/ project.project_root = << >>
               \/ Lower(Last(project.project_root)) \notin ReservedNames
            /\ project.project_root # project.artifacts_root

(***************************************************************************)
(* More properties of the gateway (SpecEngine)                             *)
(***************************************************************************)
\* C30: a result with ok true has a contract, a parsed document that is not
\* null, and a result with ok false has none
C30_ContractIffOk ==
    returned.kind = "result" =>
        (returned.result.ok = TRUE) = (returned.result.contract # None)

====
